---- MODULE Spec2Model ----
(***************************************************************************)
(* Stores API: an express application answering CRUD requests over the     *)
(* single sqlite table `stores`.  Every request handler is a chain of      *)
(* storage calls whose callbacks issue the next call; the database         *)
(* executes one statement at a time, so the atomic steps of the model are  *)
(* "one statement executes and its callback runs".  Handlers of different  *)
(* requests interleave freely between those steps.                         *)
(***************************************************************************)
EXTENDS Integers, Sequences, FiniteSets, TLC

\* ---------------------------------------------------------------- bounds
MaxRequests == 2      \* requests received in one behaviour

Clients == {1, 2}     \* connections; each carries one request at a time

\* ---------------------------------------------------------------- values
\* JavaScript `undefined` and `null`, kept apart from every text value.
Undef == "<undefined>"
Null == "<null>"

\* A set of fields as a request body carries them (undefined = key absent).
NoFields == [name |-> Undef, address |-> Undef, phone |-> Undef, email |-> Undef]

fields(name, address, phone, email) ==
    [name |-> name, address |-> address, phone |-> phone, email |-> email]

\* A parsed request body: top-level fields and an optional nested `store`
\* object (a sequence of length 0 or 1).  The bodies the requests carry:
Bodies ==
    {[top |-> NoFields, store |-> <<>>],                        \* {}
     [top |-> fields("a", "a", Undef, Undef), store |-> <<>>],       \* name and address
     [top |-> fields("a", "a", "p", "e"), store |-> <<>>],           \* every field
     [top |-> fields("", "a", Undef, Undef), store |-> <<>>],        \* an empty name
     [top |-> fields(Undef, Undef, "p", Undef), store |-> <<>>],     \* the phone alone
     [top |-> fields(Undef, Undef, Undef, "e"), store |-> <<>>],     \* the email alone
     \* { store: { name: "" } }
     [top |-> NoFields, store |-> <<fields("", Undef, Undef, Undef)>>],
     \* { name, address, store: { name: "", address: "a" } }
     [top |-> fields("a", "a", Undef, Undef), store |-> <<fields("", "a", Undef, Undef)>>]}

\* ------------------------------------------------------------- variables
VARIABLES
    table,      \* the stores table: id -> row, for the ids that have a row
    lastID,     \* sqlite_sequence of the AUTOINCREMENT key
    clock,      \* the last CURRENT_TIMESTAMP a statement read, whole seconds
    r,          \* per client: the request in flight on its connection
    out,        \* the request the last step answered, with its response
    received,   \* requests received so far
    submitted,  \* history: id -> the payload its INSERT was given
    createResp  \* history: id -> the row the 201 response carried

vars == <<table, lastID, clock, r, out, received, submitted, createResp>>

\* ------------------------------------------------------- request parsing
\* The wire forms of a body: JSON, parsed by the body parser; or XML text:
\* a document (xml2js yields text only, so it never carries null), blank
\* text, or text that is no XML document.
noNull(p) == \A k \in DOMAIN p : p[k] # Null

EmptyBody == [top |-> NoFields, store |-> <<>>]

XmlBodies == {b \in Bodies : noNull(b.top) /\ (b.store = <<>> \/ noNull(b.store[1]))}

Wires ==
    {[ctype |-> "json", text |-> "document", body |-> b] : b \in Bodies}
    \cup {[ctype |-> "xml", text |-> "document", body |-> b] : b \in XmlBodies}
    \cup {[ctype |-> "xml", text |-> t, body |-> EmptyBody] : t \in {"blank", "malformed"}}

\* parseIfXml: XML text that does not parse ends the request with 400; blank
\* XML text is the empty body; anything else reaches the route as parsed.
parseIfXml(w) ==
    IF w.ctype = "xml"
    THEN IF w.text = "blank" THEN [ok |-> TRUE, body |-> EmptyBody]
         ELSE IF w.text = "malformed" THEN [ok |-> FALSE, body |-> EmptyBody]
         ELSE [ok |-> TRUE, body |-> w.body]
    ELSE [ok |-> TRUE, body |-> w.body]

\* express-validator's notEmpty(): the value's string form is not "".
notEmpty(v) == v \notin {Undef, Null, ""}

\* The validation chains are route middleware: they run on req.body as the
\* body parser left it, before the handler body replaces it.
postValidators(body) ==
    {k \in {"name", "address"} : ~notEmpty(body.top[k])}

putValidators(body) ==
    {k \in {"name", "address"} : body.top[k] # Undef /\ ~notEmpty(body.top[k])}

\* let payload = req.body; if (payload && payload.store) payload = payload.store
unwrap(body) == IF body.store # <<>> THEN body.store[1] ELSE body.top

\* What the requests that can arrive come to, past the middleware and the
\* head of the handler: the bodies that parse, the validators' verdicts on
\* them and the payloads the handlers go on with.
ParsedBodies == {parseIfXml(w).body : w \in {x \in Wires : parseIfXml(x).ok}}

PostRejected == {postValidators(b) : b \in ParsedBodies} \ {{}}

PostAccepted == {unwrap(b) : b \in {x \in ParsedBodies : postValidators(x) = {}}}

PutRequests == {[errors |-> putValidators(b), payload |-> unwrap(b)] : b \in ParsedBodies}

\* ------------------------------------------------------------ responses
\* The Accept header of a request is read by sendResponse alone, so a
\* response is kept as what is sent for each value of the header.
Accepts == {"json", "xml"}

none == [status |-> 0, format |-> "none", root |-> "none", kind |-> "none",
         msg |-> "", data |-> <<>>]

NoResp == [accept \in Accepts |-> none]

\* res.status(s).json({ error: msg })
jsonError(s, msg) ==
    [accept \in Accepts |->
        [status |-> s, format |-> "json", root |-> "none", kind |-> "error",
         msg |-> msg, data |-> <<>>]]

\* res.status(400).json({ errors: errors.array() })
jsonErrors ==
    [accept \in Accepts |->
        [status |-> 400, format |-> "json", root |-> "none", kind |-> "errors",
         msg |-> "", data |-> <<>>]]

\* What a handler hands to sendResponse: a row of the table (or undefined when
\* the SELECT matched nothing), the object { store: rows }, or { message }.
rowData(found) ==
    IF found = <<>> THEN [tag |-> "undefined", rows |-> <<>>]
    ELSE [tag |-> "row", rows |-> found]

listData(rows) == [tag |-> "wrapper", rows |-> rows]

messageData == [tag |-> "message", rows |-> <<>>]

\* Array.isArray(data) ? 'stores' : (data && data.id ? 'store' : 'response')
rootName(data) ==
    IF data.tag = "array" THEN "stores"
    ELSE IF data.tag = "row" /\ data.rows[1].id # 0 THEN "store"
    ELSE "response"

\* accept.includes('application/xml') || accept.includes('text/xml')
sendAs(accept, data, status) ==
    IF accept = "xml"
    THEN [status |-> status, format |-> "xml", root |-> rootName(data),
          kind |-> data.tag, msg |-> "", data |-> data.rows]
    ELSE [status |-> status, format |-> "json", root |-> "none",
          kind |-> data.tag, msg |-> "", data |-> data.rows]

sendResponse(data, status) == [accept \in Accepts |-> sendAs(accept, data, status)]

\* --------------------------------------------------------------- storage
\* SELECT * FROM stores WHERE id = ?  (a sequence of zero or one row)
selectById(t, id) == IF id \in DOMAIN t THEN <<t[id]>> ELSE <<>>

\* SELECT * FROM stores ORDER BY id DESC
selectAll(t) ==
    LET S == DOMAIN t
        nth(k) == CHOOSE i \in S : Cardinality({j \in S : j > i}) = k - 1
    IN [k \in 1..Cardinality(S) |-> t[nth(k)]]

\* name TEXT NOT NULL, address TEXT NOT NULL (an unbound parameter is NULL)
notNullOk(name, address) == name \notin {Undef, Null} /\ address \notin {Undef, Null}

\* The parameter list of the INSERT with phone and email in each other's place.
insertRowSwapped(id, p, now) ==
    [id |-> id, name |-> p.name, address |-> p.address,
     phone |-> IF p.email = Undef THEN Null ELSE p.email,
     email |-> IF p.phone = Undef THEN Null ELSE p.phone,
     created_at |-> now, updated_at |-> now]

\* const { name, address, phone = null, email = null } = payload;
\* INSERT INTO stores (name, address, phone, email); both timestamps default
\* to CURRENT_TIMESTAMP.
insertRow(id, p, now) ==
    [id |-> id, name |-> p.name, address |-> p.address,
     phone |-> IF p.phone = Undef THEN Null ELSE p.phone,
     email |-> IF p.email = Undef THEN Null ELSE p.email,
     created_at |-> now, updated_at |-> now]

\* The merge written with `payload.x || existing.x`.
mergeFieldTruthy(supplied, prior) == IF supplied \notin {Undef, Null, ""} THEN supplied ELSE prior

\* payload.x !== undefined ? payload.x : existing.x
mergeField(supplied, prior) == IF supplied # Undef THEN supplied ELSE prior

merge(p, existing) ==
    [name |-> mergeField(p.name, existing.name),
     address |-> mergeField(p.address, existing.address),
     phone |-> mergeField(p.phone, existing.phone),
     email |-> mergeField(p.email, existing.email)]

\* UPDATE stores SET name, address, phone, email, updated_at = CURRENT_TIMESTAMP
\* WHERE id = ?   (no row matched: nothing changes, and no error)
updateRow(t, id, m, now) ==
    IF id \in DOMAIN t
    THEN [t EXCEPT ![id] = [@ EXCEPT !.name = m.name, !.address = m.address,
                                     !.phone = m.phone, !.email = m.email,
                                     !.updated_at = now]]
    ELSE t

\* DELETE FROM stores WHERE id = ?
deleteRow(t, id) == [i \in DOMAIN t \ {id} |-> t[i]]

\* -------------------------------------------------------------- requests
\* A request's life: it arrives, passes the middleware and the synchronous
\* head of its handler, and then one storage call after the other executes,
\* each callback issuing the next call or sending the response.  Arrival
\* touches nothing another request can see, so it is taken together with the
\* execution of the request's first storage call.  A statement that reads
\* CURRENT_TIMESTAMP finds the clock where the last one left it or a second
\* later.
\*
\* Fields of a request: op, pc, id (req.params.id, or this.lastID of a
\* create), payload, errors (validationResult), existing (the row the
\* existence check of an update read), resp once answered.
\* History kept with it: wrote (its INSERT, UPDATE or DELETE changed the
\* table), dirty (another request changed its row after its existence
\* check), peers (payloads of the updates of the same row that overlapped it
\* and were answered 200), cleanRead (its SELECT read a row created in this
\* run that no UPDATE or DELETE had changed, its 201 already sent).
Idle ==
    [op |-> "none", pc |-> "idle", id |-> 0,
     payload |-> NoFields, errors |-> {}, existing |-> <<>>, resp |-> NoResp,
     wrote |-> FALSE, dirty |-> FALSE, peers |-> {}, cleanRead |-> FALSE]

\* Number(req.params.id): the ids that have been assigned, and one that has not
pathIds == 1..(lastID + 1)

\* CURRENT_TIMESTAMP, from a clock that does not run backwards
timestamps == {clock, clock + 1}

\* A request is taken by the first connection that is free.
free(c) ==
    /\ r[c].pc = "idle"
    /\ \A d \in Clients : d < c => r[d].pc # "idle"
    /\ received < MaxRequests

\* A new request, as it stands when its first storage call executes.
fresh(op, id, pc) == [Idle EXCEPT !.op = op, !.id = id, !.pc = pc]

\* The response is sent: the request is over.
answered(req, resp) == [req EXCEPT !.pc = "done", !.resp = resp]

\* Another request's UPDATE or DELETE changed row `id`: every update in
\* flight on that id, past its existence check, has been written under.
wroteUnder(rr, c, id) ==
    [d \in Clients |->
        IF d # c /\ rr[d].op = "put" /\ rr[d].id = id /\ rr[d].pc \in {"update", "select"}
        THEN [rr[d] EXCEPT !.dirty = TRUE]
        ELSE rr[d]]

\* Update `req` of client c is answered 200: the updates of the same row
\* still in flight have overlapped it.
answeredBeside(rr, c, req) ==
    [d \in Clients |->
        IF d = c THEN Idle
        ELSE IF rr[d].op = "put" /\ rr[d].id = req.id /\ rr[d].pc \in {"update", "select"}
             THEN [rr[d] EXCEPT !.peers = @ \cup {req.payload}]
        ELSE rr[d]]

\* History of the rows created in this run, kept while they are as created.
with(h, id, v) == [i \in DOMAIN h \cup {id} |-> IF i = id THEN v ELSE h[i]]

without(h, id) == [i \in DOMAIN h \ {id} |-> h[i]]

\* The database file outlives the process (CREATE TABLE IF NOT EXISTS): the
\* service starts on an empty table or on rows an earlier run left.
InitialTables ==
    {<<>>,
     <<insertRow(1, fields("a", "a", Undef, Undef), 0)>>}

Init ==
    /\ table \in InitialTables
    /\ lastID = Len(table)
    /\ clock = 0
    /\ r = [c \in Clients |-> Idle]
    /\ out = Idle
    /\ received = 0
    /\ submitted = <<>>
    /\ createResp = <<>>

\* parseIfXml answers 400 to XML text that does not parse, whatever the route.
InvalidXml(c) ==
    /\ free(c)
    /\ \E w \in Wires : ~parseIfXml(w).ok
    /\ out' = answered(fresh("any", 0, "done"), jsonError(400, "Invalid XML payload"))
    /\ received' = received + 1
    /\ UNCHANGED <<table, lastID, clock, r, submitted, createResp>>

\* GET /stores
List(c) ==
    \E ok \in BOOLEAN :
        /\ free(c)
        /\ out' = answered(fresh("list", 0, "done"),
                           IF ok THEN sendResponse(listData(selectAll(table)), 200)
                           ELSE jsonError(500, "Database error"))
        /\ received' = received + 1
        /\ UNCHANGED <<table, lastID, clock, r, submitted, createResp>>

\* POST /stores, rejected by the validators
PostInvalid(c) ==
    \E errors \in PostRejected :
        /\ free(c)
        /\ out' = answered([fresh("post", 0, "done") EXCEPT !.errors = errors], jsonErrors)
        /\ received' = received + 1
        /\ UNCHANGED <<table, lastID, clock, r, submitted, createResp>>

\* POST /stores, passed by the validators: stmt.run(INSERT ...) with the
\* fields of the unwrapped payload
PostInsert(c) ==
    \E payload \in PostAccepted, ok \in BOOLEAN :
        /\ free(c)
        /\ IF ok /\ notNullOk(payload.name, payload.address)
           THEN \E now \in timestamps :
                LET newId == lastID + 1 IN
                /\ table' = with(table, newId, insertRow(newId, payload, now))
                /\ lastID' = newId
                /\ clock' = now
                /\ r' = [r EXCEPT ![c] = [fresh("post", newId, "select") EXCEPT
                                             !.wrote = TRUE]]
                /\ submitted' = with(submitted, newId, payload)
                /\ out' = Idle
           ELSE /\ out' = answered(fresh("post", 0, "done"),
                                   jsonError(500, "Failed to create store"))
                /\ UNCHANGED <<table, lastID, clock, r, submitted>>
        /\ received' = received + 1
        /\ UNCHANGED createResp

\* db.get(SELECT ... WHERE id = newId) and the 201 response
PostSelect(c) ==
    /\ r[c].op = "post" /\ r[c].pc = "select"
    /\ \E ok \in BOOLEAN :
        IF ok
        THEN LET row == selectById(table, r[c].id) IN
             /\ out' = answered(r[c], sendResponse(rowData(row), 201))
             /\ createResp' = IF r[c].id \in DOMAIN submitted
                              THEN with(createResp, r[c].id, row)
                              ELSE createResp
        ELSE /\ out' = answered(r[c], jsonError(500, "DB fetch failed"))
             /\ UNCHANGED createResp
    /\ r' = [r EXCEPT ![c] = Idle]
    /\ UNCHANGED <<table, lastID, clock, received, submitted>>

\* The callback of the SELECT of GET /stores/:id
getAnswer(ok, row) ==
    IF ~ok THEN jsonError(500, "Database error")
    ELSE IF row = <<>> THEN jsonError(404, "Store not found")
    ELSE sendResponse(rowData(row), 200)

\* GET /stores/:id
Get(c) ==
    \E id \in pathIds, ok \in BOOLEAN :
        /\ free(c)
        /\ out' = [answered(fresh("get", id, "done"), getAnswer(ok, selectById(table, id)))
                      EXCEPT !.cleanRead = ok /\ id \in DOMAIN createResp]
        /\ received' = received + 1
        /\ UNCHANGED <<table, lastID, clock, r, submitted, createResp>>

\* The callback with validationResult read ahead of the existence check.
putCheckedValidationFirst(req, errors, payload, ok, existing) ==
    IF ~ok THEN [req EXCEPT !.pc = "done", !.resp = jsonError(500, "DB error")]
    ELSE IF errors # {}
         THEN [req EXCEPT !.pc = "done", !.errors = errors, !.existing = existing,
                          !.resp = jsonErrors]
    ELSE IF existing = <<>>
         THEN [req EXCEPT !.pc = "done", !.errors = errors,
                          !.resp = jsonError(404, "Store not found")]
    ELSE [req EXCEPT !.pc = "update", !.payload = payload, !.existing = existing]

\* The callback of the existence check of PUT: storage failure, then row not
\* found, then the validators' result, then on to the update.
putChecked(req, errors, payload, ok, existing) ==
    IF ~ok THEN [req EXCEPT !.pc = "done", !.resp = jsonError(500, "DB error")]
    ELSE IF existing = <<>>
         THEN [req EXCEPT !.pc = "done", !.errors = errors,
                          !.resp = jsonError(404, "Store not found")]
    ELSE IF errors # {}
         THEN [req EXCEPT !.pc = "done", !.errors = errors, !.existing = existing,
                          !.resp = jsonErrors]
    ELSE [req EXCEPT !.pc = "update", !.payload = payload, !.existing = existing]

\* PUT /stores/:id: the validators have run on the parsed body, the handler
\* has unwrapped the payload; db.get(SELECT ... WHERE id = ?) is the
\* existence check, and validationResult is read in its callback.
PutCheck(c) ==
    \E id \in pathIds, errors \in {q.errors : q \in PutRequests}, ok \in BOOLEAN :
        /\ free(c)
        /\ LET req == fresh("put", id, "check")
               existing == selectById(table, id)
           IN IF putChecked(req, errors, NoFields, ok, existing).pc = "done"
              THEN /\ out' = putChecked(req, errors, NoFields, ok, existing)
                   /\ UNCHANGED r
              ELSE \E q \in {x \in PutRequests : x.errors = errors} :
                   /\ r' = [r EXCEPT ![c] = putChecked(req, errors, q.payload, ok, existing)]
                   /\ out' = Idle
        /\ received' = received + 1
        /\ UNCHANGED <<table, lastID, clock, submitted, createResp>>

\* db.run(UPDATE ...) with the fields merged against the row read by the check
PutUpdate(c) ==
    /\ r[c].op = "put" /\ r[c].pc = "update"
    /\ \E ok \in BOOLEAN :
        LET m == merge(r[c].payload, r[c].existing[1])
            hit == r[c].id \in DOMAIN table
        IN IF ok /\ notNullOk(m.name, m.address)
           THEN \E now \in timestamps :
                /\ table' = updateRow(table, r[c].id, m, now)
                /\ clock' = now
                /\ r' = LET rr == [r EXCEPT ![c].pc = "select", ![c].wrote = hit]
                        IN IF hit THEN wroteUnder(rr, c, r[c].id) ELSE rr
                /\ submitted' = without(submitted, r[c].id)
                /\ createResp' = without(createResp, r[c].id)
                /\ out' = Idle
           ELSE /\ out' = answered(r[c], jsonError(500, "Update failed"))
                /\ r' = [r EXCEPT ![c] = Idle]
                /\ UNCHANGED <<table, clock, submitted, createResp>>
    /\ UNCHANGED <<lastID, received>>

\* db.get(SELECT ... WHERE id = ?) after the update, and the 200 response
PutSelect(c) ==
    /\ r[c].op = "put" /\ r[c].pc = "select"
    /\ \E ok \in BOOLEAN :
        IF ok
        THEN /\ out' = answered(r[c], sendResponse(rowData(selectById(table, r[c].id)), 200))
             /\ r' = answeredBeside(r, c, r[c])
        ELSE /\ out' = answered(r[c], jsonError(500, "Fetch after update failed"))
             /\ r' = [r EXCEPT ![c] = Idle]
    /\ UNCHANGED <<table, lastID, clock, received, submitted, createResp>>

\* DELETE /stores/:id: db.get(SELECT ... WHERE id = ?), the existence check
DeleteCheck(c) ==
    \E id \in pathIds, ok \in BOOLEAN :
        /\ free(c)
        /\ LET req == fresh("delete", id, "check") IN
           IF ok /\ selectById(table, id) # <<>>
           THEN r' = [r EXCEPT ![c] = [req EXCEPT !.pc = "delete"]] /\ out' = Idle
           ELSE /\ out' = answered(req, IF ~ok THEN jsonError(500, "DB error")
                                        ELSE jsonError(404, "Store not found"))
                /\ UNCHANGED r
        /\ received' = received + 1
        /\ UNCHANGED <<table, lastID, clock, submitted, createResp>>

\* db.run(DELETE ...) and the 200 response
DeleteRun(c) ==
    /\ r[c].op = "delete" /\ r[c].pc = "delete"
    /\ \E ok \in BOOLEAN :
        LET hit == r[c].id \in DOMAIN table IN
        IF ok
        THEN /\ table' = deleteRow(table, r[c].id)
             /\ out' = answered([r[c] EXCEPT !.wrote = hit], sendResponse(messageData, 200))
             /\ r' = LET rr == [r EXCEPT ![c] = Idle]
                     IN IF hit THEN wroteUnder(rr, c, r[c].id) ELSE rr
             /\ submitted' = without(submitted, r[c].id)
             /\ createResp' = without(createResp, r[c].id)
        ELSE /\ out' = answered(r[c], jsonError(500, "Delete failed"))
             /\ r' = [r EXCEPT ![c] = Idle]
             /\ UNCHANGED <<table, submitted, createResp>>
    /\ UNCHANGED <<lastID, clock, received>>

Next ==
    \E c \in Clients :
        \/ InvalidXml(c)
        \/ List(c)
        \/ PostInvalid(c) \/ PostInsert(c) \/ PostSelect(c)
        \/ Get(c)
        \/ PutCheck(c) \/ PutUpdate(c) \/ PutSelect(c)
        \/ DeleteCheck(c) \/ DeleteRun(c)

Spec == Init /\ [][Next]_vars

\* ---------------------------------------------------------------- claims
FieldNames == {"name", "address", "phone", "email"}

\* The status of the response `out` carries, whatever the Accept header.
status == out.resp["json"].status

isError == status \in {400, 404, 500}

\* The row a response carries (a sequence of zero or one row).
sentRow == out.resp["json"].data

\* C1: every row of the table has a non-empty name and a non-empty address.
C1_NameAndAddressNeverEmpty ==
    \A i \in DOMAIN table :
        table[i].name \notin {"", Null, Undef} /\ table[i].address \notin {"", Null, Undef}

\* C2: a GET of a row created in this run by a payload with non-empty name
\* and address, read after the 201 was sent and before any UPDATE or DELETE
\* changed the row, answers 200 with the id the create assigned, the fields
\* submitted (phone and email null when not submitted) and the timestamps of
\* the create response.
C2_CreatedRowIsReadBack ==
    (/\ out.op = "get" /\ out.cleanRead /\ out.id \in DOMAIN createResp
     /\ notEmpty(submitted[out.id].name) /\ notEmpty(submitted[out.id].address))
    => \A a \in Accepts :
        /\ out.resp[a].status = 200
        /\ out.resp[a].data = createResp[out.id]
        /\ Len(out.resp[a].data) = 1
        /\ LET row == out.resp[a].data[1]
               sub == submitted[out.id]
           IN /\ row.id = out.id
              /\ row.name = sub.name
              /\ row.address = sub.address
              /\ row.phone = (IF sub.phone = Undef THEN Null ELSE sub.phone)
              /\ row.email = (IF sub.email = Undef THEN Null ELSE sub.email)

\* C2 witness: a row created without phone and email is read back.
C2_Witness ==
    /\ out.op = "get" /\ out.cleanRead /\ out.id \in DOMAIN createResp
    /\ status = 200
    /\ submitted[out.id].name = "a" /\ submitted[out.id].phone = Undef

\* A step of the update of client c (its pc moves).
putStep(c) == r[c].op = "put" /\ r[c].pc \in {"update", "select"} /\ r'[c].pc # r[c].pc

\* C3: an update answered 200 that no other request wrote under carries the
\* row with the omitted fields as the existence check read them, the
\* supplied fields as the payload has them, and id and created_at as they
\* were; and no step of an update changes another row.
C3_PartialUpdateFrame ==
    /\ [](/\ out.op = "put" /\ status = 200 /\ ~out.dirty
          => /\ Len(sentRow) = 1 /\ Len(out.existing) = 1
             /\ sentRow[1].id = out.existing[1].id
             /\ sentRow[1].id = out.id
             /\ sentRow[1].created_at = out.existing[1].created_at
             /\ \A k \in FieldNames :
                    sentRow[1][k] = (IF out.payload[k] = Undef THEN out.existing[1][k]
                                     ELSE out.payload[k])
             /\ out.id \in DOMAIN table /\ table[out.id] = sentRow[1])
    /\ [][\A c \in Clients :
            putStep(c) => /\ DOMAIN table' = DOMAIN table
                          /\ \A i \in DOMAIN table \ {r[c].id} : table'[i] = table[i]]_vars

\* C3 witness: with two rows in the table, an update that supplies the phone
\* alone is answered 200.
C3_Witness ==
    /\ out.op = "put" /\ status = 200 /\ ~out.dirty
    /\ out.payload.phone = "p" /\ out.payload.name = Undef
    /\ Len(out.existing) = 1 /\ out.existing[1].phone = Null
    /\ Cardinality(DOMAIN table) >= 2

\* C4: a request answered 400, 404 or 500 has changed no row of the table.
C4_ErrorsChangeNothing == isError => ~out.wrote

\* C5: an update whose existence check finds no row is answered 404 whatever
\* the validators found, and 400 with the validators' list is answered only
\* for a row that exists.
C5_NotFoundBeforeValidation ==
    out.op = "put" =>
        /\ (status = 400 /\ out.resp["json"].kind = "errors" => out.id \in DOMAIN table)
        /\ (out.errors # {} /\ out.id \notin DOMAIN table => status = 404)

\* C5 witness: an update of an id without a row, with an empty name, is
\* answered 404.
C5_Witness ==
    /\ out.op = "put" /\ "name" \in out.errors /\ out.id \notin DOMAIN table
    /\ status = 404

\* C6: an update answered 200 that no other request wrote under leaves the
\* row with an updated_at greater than the one the row had.
C6_UpdatedAtIncreases ==
    (out.op = "put" /\ status = 200 /\ ~out.dirty /\ Len(sentRow) = 1)
    => sentRow[1].updated_at > out.existing[1].updated_at

\* C7: a GET of an id without a row, sent with Accept: application/xml, is
\* answered 404 with an XML body.
C7_NotFoundInXml ==
    (out.op = "get" /\ out.resp["xml"].status = 404) => out.resp["xml"].format = "xml"

\* C8: the root element of a success response in XML is `stores` for the
\* list, `store` for a created, read or updated row, `response` for the
\* confirmation of a delete.
C8_XmlRootNames ==
    out.resp["xml"].status \in {200, 201} =>
        /\ out.op = "list" => out.resp["xml"].root = "stores"
        /\ (out.op \in {"post", "get", "put"} /\ out.resp["xml"].data # <<>>)
            => out.resp["xml"].root = "store"
        /\ out.op = "delete" => out.resp["xml"].root = "response"

\* C9: an update or a delete answered 200 has changed a row that was there
\* when its statement executed.
C9_OkMeansTheWriteTookEffect ==
    (out.op \in {"put", "delete"} /\ status = 200) => out.wrote

disjoint(p, q) == \A k \in FieldNames : p[k] = Undef \/ q[k] = Undef

\* C10: when an update is answered 200 after updates of the same row that
\* overlapped it, supplied other fields and were answered 200, the row holds
\* every field value any of them supplied.
C10_NoLostUpdate ==
    (/\ out.op = "put" /\ status = 200 /\ out.id \in DOMAIN table
     /\ out.peers # {} /\ \A p \in out.peers : disjoint(p, out.payload))
    => \A p \in out.peers \cup {out.payload} : \A k \in FieldNames :
            p[k] # Undef => table[out.id][k] = p[k]

====
